---- MODULE Spec2Model ----
(***************************************************************************)
(* Model of src/plugin.py: the mute/unmute plugin with its two entry       *)
(* points, MuteUserAction.execute (LLM-triggered action) and               *)
(* MuteUserCommand.execute (typed command).                                *)
(*                                                                         *)
(* Python strings are sequences of one-character strings, so that          *)
(* str.isdigit, str(), int() and f-string concatenation are computed and   *)
(* not assumed.  A Python value is a record [t, n, s]: t is the type tag   *)
(* ("absent" for a key missing from a dict, "none", "int", "str"), n the   *)
(* integer and s the string payload.                                       *)
(***************************************************************************)
EXTENDS Integers, Sequences, FiniteSets, TLC

VARIABLES
    cfg,              \* the plugin configuration read through get_config
    entry,            \* "none" | "action" | "command": the running entry point
    inp,              \* the invocation's inputs (action_data / matched_groups, chat context)
    pc,               \* position of the invocation in execute
    has_permission,   \* local has_permission
    permission_error, \* local permission_error
    user_id,          \* local user_id (the resolved target), a Python value
    duration,         \* local duration, a Python value
    message,          \* local message (result of _get_template_message)
    person_id,        \* local person_id (result of get_person_id_by_name)
    real_user_id,     \* local real_user_id (result of get_person_value)
    response,         \* the HTTP response (or exception) of client.post
    sent,             \* messages passed to send_text, in order
    posts,            \* payloads POSTed to the moderation endpoint, in order
    lookups,          \* calls of person_api.get_person_id_by_name
    fetches,          \* calls of person_api.get_person_value
    stored,           \* calls of store_action_info
    rewrites,         \* calls of generator_api.rewrite_reply
    result,           \* what execute returned (or that it raised)
    cur,              \* number of the invocation running on the event loop (0: none)
    parked,           \* the invocations suspended at an await, with their locals
    delivered,        \* requests in the order the moderation endpoint received them
    started           \* the inputs of the invocations, in the order they were started

vars == <<cfg, entry, inp, pc, has_permission, permission_error, user_id,
          duration, message, person_id, real_user_id, response, sent, posts,
          lookups, fetches, stored, rewrites, result, cur, parked, delivered,
          started>>

\* what is kept across the invocations of one event loop
scheduler == <<cur, parked, delivered, started>>

----------------------------------------------------------------------------
(* Bounds and program constants *)

\* rewrite_reply returns at most this many reply segments
MaxSegs == 1

\* invocations started on one event loop before it is torn down
MaxInvocations == 2

\* documented upper end of the duration range (30 days, in seconds)
MaxDuration == 2592000

\* fallback of get_config("mute_command.default_duration", 600)
FallbackDuration == 600

\* the HTTP status the code accepts
HttpOK == 200

----------------------------------------------------------------------------
(* Python values *)

Absent == [t |-> "absent", n |-> 0, s |-> <<>>]
None == [t |-> "none", n |-> 0, s |-> <<>>]
PInt(k) == [t |-> "int", n |-> k, s |-> <<>>]
PStr(x) == [t |-> "str", n |-> 0, s |-> x]

\* dict.get(key, default): the default only when the key is missing
Get(v, default) == IF v.t = "absent" THEN default ELSE v

\* Python truthiness, as used by "if not x"
Truthy(v) ==
    CASE v.t = "int" -> v.n # 0
      [] v.t = "str" -> v.s # <<>>
      [] OTHER -> FALSE

DigitChars == <<"0", "1", "2", "3", "4", "5", "6", "7", "8", "9">>

DigitSet == {DigitChars[i] : i \in 1..10}

DigitValue(c) == (CHOOSE i \in 1..10 : DigitChars[i] = c) - 1

\* decimal digits of a natural number
RECURSIVE NatStr(_)
NatStr(k) ==
    IF k < 10 THEN <<DigitChars[k + 1]>>
    ELSE NatStr(k \div 10) \o <<DigitChars[(k % 10) + 1]>>

\* str(int)
DecStr(k) == IF k < 0 THEN <<"-">> \o NatStr(0 - k) ELSE NatStr(k)

\* str(v), also the conversion an f-string applies
Str(v) ==
    CASE v.t = "int" -> DecStr(v.n)
      [] v.t = "str" -> v.s
      [] OTHER -> <<"N", "o", "n", "e">>

\* str.isdigit(): non-empty and made of digits only
IsDigit(x) == Len(x) > 0 /\ \A i \in 1..Len(x) : x[i] \in DigitSet

\* the value of a string of digits
RECURSIVE DigitsValue(_)
DigitsValue(x) ==
    IF x = <<>> THEN 0
    ELSE 10 * DigitsValue(SubSeq(x, 1, Len(x) - 1)) + DigitValue(x[Len(x)])

\* int(v): [exc, n]; a string converts when it is digits (with an optional
\* sign), None raises TypeError, any other string raises ValueError
IntOf(v) ==
    CASE v.t = "int" -> [exc |-> "none", n |-> v.n]
      [] v.t = "str" /\ IsDigit(v.s) -> [exc |-> "none", n |-> DigitsValue(v.s)]
      [] v.t = "str" /\ Len(v.s) > 1 /\ v.s[1] = "-" /\ IsDigit(Tail(v.s)) ->
            [exc |-> "none", n |-> 0 - DigitsValue(Tail(v.s))]
      [] v.t = "str" -> [exc |-> "ValueError", n |-> 0]
      [] OTHER -> [exc |-> "TypeError", n |-> 0]

\* "duration > 0": [exc, gt]; comparing a str or None with an int raises TypeError
GtZero(v) ==
    IF v.t = "int" THEN [exc |-> "none", gt |-> v.n > 0]
    ELSE [exc |-> "TypeError", gt |-> FALSE]

----------------------------------------------------------------------------
(* Strings used by the inputs and the configuration *)

S_qq == <<"q", "q">>
S_QQ == <<"Q", "Q">>
S_1 == <<"1">>
S_12 == <<"1", "2">>
S_42 == <<"4", "2">>
S_li == <<"l", "i">>
S_60 == <<"6", "0">>
S_abc == <<"a", "b", "c">>
S_777 == <<"7", "7", "7">>
S_p1 == <<"p", "1">>
S_colon == <<":">>

\* default of action_data.get("reason", ...) and matched_groups.get("reason", ...)
DefaultReason == <<"a", "d", "m", "i", "n">>

\* f"{platform}:{id}"
Key(platform, id) == Str(platform) \o S_colon \o Str(id)

----------------------------------------------------------------------------
(* Permission gates *)

\* mutant of CheckGroupPermission: an entry matches a key it is a prefix of
CheckGroupPermission_Prefix(is_group, platform, group_id, allowed_groups) ==
    IF ~is_group THEN [ok |-> FALSE, err |-> "group_only"]
    ELSE IF allowed_groups = <<>> THEN [ok |-> TRUE, err |-> "none"]
    ELSE IF \E i \in 1..Len(allowed_groups) :
                /\ Len(allowed_groups[i]) <= Len(Key(platform, group_id))
                /\ SubSeq(Key(platform, group_id), 1, Len(allowed_groups[i]))
                       = allowed_groups[i]
         THEN [ok |-> TRUE, err |-> "none"]
    ELSE [ok |-> FALSE, err |-> "group_not_allowed"]

\* mutant of CheckGroupPermission: an empty allow-list allows nobody
CheckGroupPermission_EmptyDenies(is_group, platform, group_id, allowed_groups) ==
    IF ~is_group THEN [ok |-> FALSE, err |-> "group_only"]
    ELSE IF \E i \in 1..Len(allowed_groups) :
                allowed_groups[i] = Key(platform, group_id)
         THEN [ok |-> TRUE, err |-> "none"]
    ELSE [ok |-> FALSE, err |-> "group_not_allowed"]

\* mutant of CheckGroupPermission: the group-chat test is missing
CheckGroupPermission_NoGroupTest(is_group, platform, group_id, allowed_groups) ==
    IF allowed_groups = <<>> THEN [ok |-> TRUE, err |-> "none"]
    ELSE IF \E i \in 1..Len(allowed_groups) :
                allowed_groups[i] = Key(platform, group_id)
         THEN [ok |-> TRUE, err |-> "none"]
    ELSE [ok |-> FALSE, err |-> "group_not_allowed"]

\* MuteUserAction._check_group_permission
CheckGroupPermission(is_group, platform, group_id, allowed_groups) ==
    IF ~is_group THEN [ok |-> FALSE, err |-> "group_only"]
    ELSE IF allowed_groups = <<>> THEN [ok |-> TRUE, err |-> "none"]
    ELSE IF \E i \in 1..Len(allowed_groups) :
                allowed_groups[i] = Key(platform, group_id)
         THEN [ok |-> TRUE, err |-> "none"]
    ELSE [ok |-> FALSE, err |-> "group_not_allowed"]

\* MuteUserCommand._check_user_permission; exc is the AttributeError of
\* chat_stream.user_info.user_id when user_info is None
CheckUserPermission(chat, allowed_users) ==
    IF ~chat.has_stream THEN [exc |-> "none", ok |-> FALSE, err |-> "no_chat_stream"]
    ELSE IF ~chat.has_user_info THEN [exc |-> "AttributeError", ok |-> FALSE, err |-> "none"]
    ELSE IF allowed_users = <<>> THEN [exc |-> "none", ok |-> TRUE, err |-> "none"]
    ELSE IF \E i \in 1..Len(allowed_users) :
                allowed_users[i] = Key(chat.platform, PStr(Str(chat.actor)))
         THEN [exc |-> "none", ok |-> TRUE, err |-> "none"]
    ELSE [exc |-> "none", ok |-> FALSE, err |-> "user_not_allowed"]

----------------------------------------------------------------------------
(* Template renderer *)

\* the keys of the context dict passed to format_map
ContextKeys == {"user_id", "target", "user_name", "duration", "reason"}

\* context[key]
ContextValue(key, uid, dur, reason) ==
    CASE key \in {"user_id", "target", "user_name"} -> uid
      [] key = "duration" -> Str(dur) \o <<"s">>
      [] OTHER -> reason

\* A template is a sequence of fields: "text" is literal text, a name is the
\* replacement field {name}, "{" is an unbalanced brace.
\* str.format_map scans left to right and stops at the first field it cannot
\* render: KeyError for a name missing from the context, ValueError for the
\* unbalanced brace.
FormatMap(template, uid, dur, reason) ==
    LET bad == {i \in 1..Len(template) : template[i] \notin ContextKeys \cup {"text"}}
        first == CHOOSE i \in bad : \A j \in bad : i <= j
    IN  IF bad = {} THEN
            [exc |-> "none",
             parts |-> [i \in 1..Len(template) |->
                          IF template[i] = "text" THEN <<"#">>
                          ELSE ContextValue(template[i], uid, dur, reason)]]
        ELSE IF template[first] = "{" THEN [exc |-> "ValueError", parts |-> <<>>]
        ELSE [exc |-> "KeyError", parts |-> <<>>]

NoMessage == [kind |-> "none", pool |-> "none", parts |-> <<>>]

\* _get_template_message (the action's and the command's are the same text):
\* the set of its outcomes [exc, msg], one per template random.choice may pick
TemplateMessages(uid, dur, reason) ==
    LET gt == GtZero(dur)
        pool == IF gt.gt THEN "mute" ELSE "unmute"
        template_list ==
            IF ~cfg.templates.present THEN <<>>
            ELSE IF gt.gt THEN cfg.templates.mute ELSE cfg.templates.unmute
        action_text == IF gt.gt THEN <<"m", "u", "t", "e">> ELSE <<"u", "n", "m", "u", "t", "e">>
        Rendered(template) ==
            LET f == FormatMap(template, uid, dur, reason)
            IN  CASE f.exc = "none" ->
                        [exc |-> "none",
                         msg |-> [kind |-> "template", pool |-> pool, parts |-> f.parts]]
                  [] f.exc = "KeyError" ->
                        [exc |-> "none",
                         msg |-> [kind |-> "degraded", pool |-> pool, parts |-> <<uid, reason>>]]
                  [] OTHER -> [exc |-> f.exc, msg |-> NoMessage]
    IN  IF gt.exc # "none" THEN {[exc |-> gt.exc, msg |-> NoMessage]}
        ELSE IF template_list = <<>> THEN
            {[exc |-> "none",
              msg |-> [kind |-> "default", pool |-> pool,
                       parts |-> <<uid, action_text, Str(dur) \o <<"s">>, reason>>]]}
        ELSE {Rendered(template_list[i]) : i \in 1..Len(template_list)}

----------------------------------------------------------------------------
(* Configuration and inputs *)

\* permissions.allowed_groups / permissions.allowed_users: lists of "platform:id"
AllowLists ==
    { <<>>,
      <<S_qq \o S_colon \o S_1>>,
      <<S_qq \o S_colon \o S_12, S_QQ \o S_colon \o S_1>> }

\* mute.templates: the default-like pools, no templates at all, a pool with an
\* unknown placeholder beside an empty pool, pools with an unbalanced brace
TemplateConfigs ==
    { [present |-> TRUE,
       mute |-> << <<"target", "text", "reason", "duration">>,
                   <<"user_name", "duration", "reason">> >>,
       unmute |-> << <<"text", "user_id">> >>],
      [present |-> FALSE, mute |-> <<>>, unmute |-> <<>>],
      [present |-> TRUE, mute |-> << <<"nick", "target">> >>, unmute |-> <<>>],
      [present |-> TRUE, mute |-> << <<"target", "{">> >>,
       unmute |-> << <<"{", "nick">> >>] }

\* mute_command.default_duration: unset, or a configured number of seconds
DefaultDurations == {Absent, PInt(300)}

\* the action reads allowed_groups and the command allowed_users, never both:
\* the two lists are drawn together
Configs ==
    { [allowed_groups |-> l, allowed_users |-> l, templates |-> t,
       default_duration |-> d] :
      l \in AllowLists, t \in TemplateConfigs, d \in DefaultDurations }

Platforms == {PStr(S_qq), PStr(S_QQ)}

\* action_data["user_id"]: missing, empty, digits, a name, a number
ActionTargets == {Absent, PStr(<<>>), PStr(S_42), PStr(S_li), PInt(7)}

\* action_data["duration"]
ActionDurations ==
    {Absent, PInt(-5), PInt(0), PInt(600), PInt(MaxDuration + 1), PStr(S_60),
     PStr(S_abc)}

\* self.is_group and self.group_id
ActionContexts ==
    {[is_group |-> FALSE, group_id |-> None]} \cup
    [is_group : {TRUE}, group_id : {None, PStr(<<>>), PStr(S_1), PStr(S_12)}]

ActionInputs ==
    { [user_id |-> t, duration |-> d, command |-> "none",
       is_group |-> c.is_group, group_id |-> c.group_id, platform |-> p,
       has_stream |-> TRUE, has_user_info |-> TRUE, actor |-> PInt(1)] :
      t \in ActionTargets, d \in ActionDurations, c \in ActionContexts, p \in Platforms }

\* what is typed after /mute or /unmute: an id, a name, or nothing (None)
CommandTargets == {PStr(S_42), PStr(S_li), None}

CommandDurations == {None, PStr(<<"0">>), PStr(S_60), PStr(NatStr(MaxDuration + 1))}

\* message.chat_stream: missing, without user_info, or complete; group_info may
\* be missing (group_id None) or carry an empty id
CommandContexts ==
    {[has_stream |-> FALSE, has_user_info |-> FALSE, is_group |-> FALSE,
      group_id |-> None, actor |-> None],
     [has_stream |-> TRUE, has_user_info |-> FALSE, is_group |-> FALSE,
      group_id |-> None, actor |-> None]} \cup
    { [has_stream |-> TRUE, has_user_info |-> TRUE, is_group |-> g.t # "none",
       group_id |-> g, actor |-> a] :
      g \in {None, PStr(<<>>), PStr(S_1)}, a \in {PInt(1), PStr(S_12)} }

\* the typed command messages, as the groups command_pattern would capture
CommandTexts ==
    { [user_id |-> t, duration |-> d, command |-> k,
       is_group |-> c.is_group, group_id |-> c.group_id, platform |-> p,
       has_stream |-> c.has_stream, has_user_info |-> c.has_user_info,
       actor |-> c.actor] :
      t \in CommandTargets, d \in CommandDurations, k \in {"mute", "unmute"},
      c \in CommandContexts, p \in Platforms }

\* command_pattern: ^/(mute|unmute)\s+(\d+)(?:\s+(\d+))?(?:\s+(.+))?$ matches
\* only when the target is a string of digits
CommandPattern(text) ==
    /\ text.command \in {"mute", "unmute"}
    /\ text.user_id.t = "str" /\ IsDigit(text.user_id.s)
    /\ text.duration.t = "str" => IsDigit(text.duration.s)

\* matched_groups of the messages that reach MuteUserCommand.execute
CommandInputs == { text \in CommandTexts : CommandPattern(text) }

NoInput ==
    [user_id |-> Absent, duration |-> Absent, command |-> "none",
     is_group |-> FALSE, group_id |-> None, platform |-> PStr(S_qq),
     has_stream |-> FALSE, has_user_info |-> FALSE, actor |-> None]

\* the moderation endpoint's answers: a transport exception, or a status code
\* with a body that is JSON {status, retcode} or is not JSON
NoResponse == [exc |-> FALSE, code |-> 0, json |-> FALSE, status |-> "none", retcode |-> 0]

Responses ==
    {[exc |-> TRUE, code |-> 0, json |-> FALSE, status |-> "none", retcode |-> 0]} \cup
    { [exc |-> FALSE, code |-> HttpOK, json |-> TRUE, status |-> s, retcode |-> r] :
      s \in {"ok", "failed"}, r \in {0, 1} } \cup
    {[exc |-> FALSE, code |-> 500, json |-> TRUE, status |-> "ok", retcode |-> 0]} \cup
    { [exc |-> FALSE, code |-> c, json |-> FALSE, status |-> "none", retcode |-> 0] :
      c \in {HttpOK, 500} }

NoResult == [returned |-> FALSE, success |-> FALSE, reason |-> "none", exc |-> "none"]

----------------------------------------------------------------------------
(* Moderation response *)

\* the branch of the response handling a response falls in: the except
\* clause ("exception": the transport failed, or response.json() raised on
\* a 200 whose body is not JSON), the non-200 branch ("http"), the API
\* failure branch ("returned"), or success ("ok")
Classify(r) ==
    CASE r.exc -> "exception"
      [] r.code # HttpOK -> "http"
      [] ~r.json -> "exception"
      [] r.status = "ok" /\ r.retcode = 0 -> "ok"
      [] OTHER -> "returned"

----------------------------------------------------------------------------
(* Steps shared by the two entry points *)

\* await self.send_text(...)
Msg(kind, body) == [kind |-> kind, msg |-> body]

\* return success, reason
Return(success, reason) ==
    /\ pc' = "done"
    /\ result' = [returned |-> TRUE, success |-> success, reason |-> reason, exc |-> "none"]

\* an exception leaves execute
Raise(exc) ==
    /\ pc' = "done"
    /\ result' = [returned |-> FALSE, success |-> FALSE, reason |-> "none", exc |-> exc]

\* n copies of a message (the segments of a rewritten reply)
Segments(n, m) == [i \in 1..n |-> m]

----------------------------------------------------------------------------
(* Initial state and the start of an invocation *)

\* the locals and the record of effects of an invocation, before it runs
Fresh ==
    /\ has_permission = FALSE
    /\ permission_error = "none"
    /\ user_id = None
    /\ duration = None
    /\ message = NoMessage
    /\ person_id = None
    /\ real_user_id = None
    /\ response = NoResponse
    /\ sent = <<>>
    /\ posts = <<>>
    /\ lookups = 0
    /\ fetches = 0
    /\ stored = 0
    /\ rewrites = 0
    /\ result = NoResult

Init ==
    /\ cfg \in Configs
    /\ entry = "none"
    /\ inp = NoInput
    /\ pc = "idle"
    /\ Fresh
    /\ cur = 0
    /\ parked = <<>>
    /\ delivered = <<>>
    /\ started = <<>>

\* the host framework builds a component instance and calls its execute()
Invoke(e, i) ==
    /\ pc = "idle"
    /\ Len(started) < MaxInvocations
    /\ entry' = e
    /\ inp' = i
    /\ pc' = IF e = "action" THEN "a_begin" ELSE "c_begin"
    /\ cur' = Len(started) + 1
    /\ started' = Append(started, i)
    /\ UNCHANGED <<parked, delivered, real_user_id, cfg, has_permission, permission_error, user_id, duration, message,
                   person_id, response, sent, posts, lookups, fetches, stored,
                   rewrites, result>>

\* a typed message that command_pattern does not match never reaches execute
CommandUnmatched ==
    /\ pc = "idle"
    /\ \E text \in CommandTexts \ CommandInputs : inp' = text
    /\ pc' = "unmatched"
    /\ UNCHANGED <<scheduler, cfg, entry, has_permission, permission_error, user_id,
                   duration, message, person_id, real_user_id, response, sent,
                   posts, lookups, fetches, stored, rewrites, result>>

\* execute() has returned or raised: the instance and its locals are dropped
Release ==
    /\ pc \in {"done", "unmatched"}
    /\ entry' = "none"
    /\ inp' = NoInput
    /\ pc' = "idle"
    /\ has_permission' = FALSE
    /\ permission_error' = "none"
    /\ user_id' = None
    /\ duration' = None
    /\ message' = NoMessage
    /\ person_id' = None
    /\ real_user_id' = None
    /\ response' = NoResponse
    /\ sent' = <<>>
    /\ posts' = <<>>
    /\ lookups' = 0
    /\ fetches' = 0
    /\ stored' = 0
    /\ rewrites' = 0
    /\ result' = NoResult
    /\ cur' = 0
    /\ delivered' = <<>>
    /\ started' = <<>>
    /\ UNCHANGED <<cfg, parked>>

InvokeAction == \E i \in ActionInputs : Invoke("action", i)

InvokeCommand == \E i \in CommandInputs : Invoke("command", i)

----------------------------------------------------------------------------
(* MuteUserAction.execute *)

\* lines 95-105: the gate is evaluated, the parameters read, the target checked
ActionBegin ==
    /\ pc = "a_begin"
    /\ LET perm == CheckGroupPermission(inp.is_group, inp.platform, inp.group_id,
                                        cfg.allowed_groups)
       IN  /\ has_permission' = perm.ok
           /\ permission_error' = perm.err
    /\ duration' = Get(inp.duration, PInt(0))
    /\ IF ~Truthy(Get(inp.user_id, None))
       THEN /\ sent' = Append(sent, Msg("a_no_target", NoMessage))
            /\ Return(FALSE, "user_empty")
       ELSE /\ pc' = "a_resolve"
            /\ UNCHANGED <<sent, result>>
    /\ UNCHANGED <<scheduler, real_user_id, cfg, entry, inp, user_id, message, person_id, response, posts,
                   lookups, fetches, stored, rewrites>>

\* mutant of ActionResolve: every target is looked up in the directory
ActionResolve_AlwaysLookup ==
    /\ pc = "a_resolve"
    /\ \E found \in {None, PStr(S_p1)} :
        /\ lookups' = lookups + 1
        /\ person_id' = found
        /\ user_id' = None
        /\ pc' = IF Truthy(found) THEN "a_fetch" ELSE "a_check_user"
    /\ UNCHANGED <<scheduler, real_user_id, cfg, entry, inp, has_permission,
                   permission_error, duration, message, response, sent, posts,
                   fetches, stored, rewrites, result>>

\* lines 107-125: a string of digits is the id; any other target is looked up by name
ActionResolve ==
    /\ pc = "a_resolve"
    /\ LET user_id_or_name_str == Str(inp.user_id)
       IN  IF IsDigit(user_id_or_name_str)
           THEN /\ user_id' = PStr(user_id_or_name_str)
                /\ pc' = "a_check_user"
                /\ UNCHANGED <<person_id, lookups>>
           ELSE \E found \in {None, PStr(S_p1)} :
                /\ lookups' = lookups + 1
                /\ person_id' = found
                /\ user_id' = None
                /\ pc' = IF Truthy(found) THEN "a_fetch" ELSE "a_check_user"
    /\ UNCHANGED <<scheduler, real_user_id, cfg, entry, inp, has_permission, permission_error, duration,
                   message, response, sent, posts, fetches, stored, rewrites, result>>

\* mutant of ActionFetch: the fetched value is used without testing it
ActionFetch_NoCheck ==
    /\ pc = "a_fetch"
    /\ \E value \in {None, PStr(<<>>), PStr(S_777), PInt(777)} :
        /\ fetches' = fetches + 1
        /\ real_user_id' = value
        /\ user_id' = PStr(Str(value))
    /\ pc' = "a_check_user"
    /\ UNCHANGED <<scheduler, cfg, entry, inp, has_permission, permission_error,
                   duration, message, person_id, response, sent, posts, lookups,
                   stored, rewrites, result>>

\* lines 118-123: await person_api.get_person_value(person_id, "user_id")
ActionFetch ==
    /\ pc = "a_fetch"
    /\ \E value \in {None, PStr(<<>>), PStr(S_777), PInt(777)} :
        /\ fetches' = fetches + 1
        /\ real_user_id' = value
        /\ user_id' = IF Truthy(value) THEN PStr(Str(value)) ELSE None
    /\ pc' = "a_check_user"
    /\ UNCHANGED <<scheduler, cfg, entry, inp, has_permission, permission_error, duration,
                   message, person_id, response, sent, posts, lookups, stored,
                   rewrites, result>>

\* mutant of ActionCheckUser: an unresolved target does not stop the action
ActionCheckUser_NoStop ==
    /\ pc = "a_check_user"
    /\ \E r \in TemplateMessages(Str(user_id), duration, DefaultReason) :
        IF r.exc # "none"
        THEN Raise(r.exc) /\ UNCHANGED message
        ELSE pc' = "a_gate" /\ message' = r.msg /\ UNCHANGED result
    /\ UNCHANGED <<scheduler, real_user_id, cfg, entry, inp, has_permission,
                   permission_error, user_id, duration, person_id, response, posts,
                   lookups, fetches, stored, rewrites, sent>>

\* lines 127-134: an unresolved target fails; otherwise the message is rendered
ActionCheckUser ==
    /\ pc = "a_check_user"
    /\ IF ~Truthy(user_id)
       THEN /\ sent' = Append(sent, Msg("a_not_found", NoMessage))
            /\ Return(FALSE, "unresolved")
            /\ UNCHANGED message
       ELSE \E r \in TemplateMessages(Str(user_id), duration, DefaultReason) :
            /\ IF r.exc # "none"
               THEN Raise(r.exc) /\ UNCHANGED message
               ELSE pc' = "a_gate" /\ message' = r.msg /\ UNCHANGED result
            /\ UNCHANGED sent
    /\ UNCHANGED <<scheduler, real_user_id, cfg, entry, inp, has_permission, permission_error, user_id,
                   duration, person_id, response, posts, lookups, fetches, stored,
                   rewrites>>

\* mutant of ActionDenied: the denial branch does not return and falls through
ActionDenied_NoReturn ==
    /\ pc = "a_gate"
    /\ ~has_permission
    /\ \E result_status \in BOOLEAN, n \in 0..MaxSegs :
        sent' = sent \o Segments(IF result_status THEN n ELSE 0,
                                 Msg("a_denial_notice", NoMessage))
    /\ rewrites' = rewrites + 1
    /\ stored' = stored + 1
    /\ pc' = "a_group"
    /\ UNCHANGED <<scheduler, real_user_id, cfg, entry, inp, has_permission, permission_error, user_id,
                   duration, message, person_id, response, posts, lookups, fetches,
                   result>>

\* lines 137-155: without permission, a rewritten notice, the record, failure
ActionDenied ==
    /\ pc = "a_gate"
    /\ ~has_permission
    /\ \E result_status \in BOOLEAN, n \in 0..MaxSegs :
        sent' = sent \o Segments(IF result_status THEN n ELSE 0,
                                 Msg("a_denial_notice", NoMessage))
    /\ rewrites' = rewrites + 1
    /\ stored' = stored + 1
    /\ Return(FALSE, permission_error)
    /\ UNCHANGED <<scheduler, real_user_id, cfg, entry, inp, has_permission, permission_error, user_id,
                   duration, message, person_id, response, posts, lookups, fetches>>

\* lines 156-166: with permission, the rendered message is rewritten and sent
ActionNarrate ==
    /\ pc = "a_gate"
    /\ has_permission
    /\ \E result_status \in BOOLEAN, n \in 0..MaxSegs :
        sent' = sent \o Segments(IF result_status THEN n ELSE 0,
                                 Msg("a_confirmation", message))
    /\ rewrites' = rewrites + 1
    /\ pc' = "a_group"
    /\ UNCHANGED <<scheduler, real_user_id, cfg, entry, inp, has_permission, permission_error, user_id,
                   duration, message, person_id, response, posts, lookups, fetches,
                   stored, result>>

\* mutant of ActionGroupCheck: the group id is not tested before the call
ActionGroupCheck_NoCheck ==
    /\ pc = "a_group"
    /\ IF IntOf(duration).exc # "none"
       THEN Raise(IntOf(duration).exc)
       ELSE pc' = "a_post" /\ UNCHANGED result
    /\ UNCHANGED <<scheduler, real_user_id, cfg, entry, inp, has_permission,
                   permission_error, user_id, duration, message, person_id,
                   response, posts, lookups, fetches, stored, rewrites, sent>>

\* lines 169-183: the group id is required; the payload converts the duration
ActionGroupCheck ==
    /\ pc = "a_group"
    /\ IF ~Truthy(inp.group_id)
       THEN /\ sent' = Append(sent, Msg("a_fail_group", NoMessage))
            /\ Return(FALSE, "no_group_id")
       ELSE /\ IF IntOf(duration).exc # "none"
               THEN Raise(IntOf(duration).exc)
               ELSE pc' = "a_post" /\ UNCHANGED result
            /\ UNCHANGED sent
    /\ UNCHANGED <<scheduler, real_user_id, cfg, entry, inp, has_permission, permission_error, user_id,
                   duration, message, person_id, response, posts, lookups, fetches,
                   stored, rewrites>>

\* mutant of ActionPayload: the duration is kept in an attribute that the
\* instances share, so the payload carries that of the latest invocation
ActionPayload_SharedDuration ==
    [group_id |-> Str(inp.group_id), user_id |-> Str(user_id),
     duration |-> PInt(IntOf(Get(started[Len(started)].duration, PInt(0))).n)]

\* the payload of lines 179-183
ActionPayload ==
    [group_id |-> Str(inp.group_id), user_id |-> Str(user_id),
     duration |-> PInt(IntOf(duration).n)]

\* lines 185-187: the POST, and what comes back
ActionPost ==
    /\ pc = "a_post"
    /\ posts' = Append(posts, ActionPayload)
    /\ delivered' = Append(delivered, [id |-> cur, payload |-> ActionPayload])
    /\ response' \in Responses
    /\ pc' = "a_response"
    /\ UNCHANGED <<cur, parked, started, real_user_id, cfg, entry, inp, has_permission, permission_error, user_id,
                   duration, message, person_id, sent, lookups, fetches, stored,
                   rewrites, result>>

\* mutant of ActionResponse: a failed attempt is retried
ActionResponse_Retry ==
    /\ pc = "a_response"
    /\ IF Classify(response) = "ok"
       THEN /\ stored' = stored + 1
            /\ Return(TRUE, "ok_mute")
       ELSE /\ pc' = "a_post"
            /\ UNCHANGED <<stored, result>>
    /\ UNCHANGED <<scheduler, real_user_id, cfg, entry, inp, has_permission, permission_error, user_id,
                   duration, message, person_id, response, posts, lookups, fetches,
                   rewrites, sent>>

\* mutant of ActionResponse: the action is recorded whatever the response is
ActionResponse_AlwaysStore ==
    /\ pc = "a_response"
    /\ stored' = stored + 1
    /\ LET class == Classify(response)
       IN  CASE class = "ok" ->
                  /\ Return(TRUE, IF GtZero(duration).gt THEN "ok_mute" ELSE "ok_unmute")
                  /\ UNCHANGED sent
             [] class = "returned" ->
                  /\ sent' = Append(sent, Msg("a_fail_api_returned", NoMessage))
                  /\ Return(FALSE, "api_returned_failure")
             [] class = "http" ->
                  /\ sent' = Append(sent, Msg("a_fail_api_http", NoMessage))
                  /\ Return(FALSE, "api_http_status")
             [] OTHER ->
                  /\ sent' = Append(sent, Msg("a_fail_api_exception", NoMessage))
                  /\ Return(FALSE, "api_exception")
    /\ UNCHANGED <<scheduler, real_user_id, cfg, entry, inp, has_permission,
                   permission_error, user_id, duration, message, person_id,
                   response, posts, lookups, fetches, rewrites>>

\* lines 188-213: the response decides the outcome
ActionResponse ==
    /\ pc = "a_response"
    /\ LET class == Classify(response)
       IN  CASE class = "ok" ->
                  /\ stored' = stored + 1
                  /\ Return(TRUE, IF GtZero(duration).gt THEN "ok_mute" ELSE "ok_unmute")
                  /\ UNCHANGED sent
             [] class = "returned" ->
                  /\ sent' = Append(sent, Msg("a_fail_api_returned", NoMessage))
                  /\ Return(FALSE, "api_returned_failure")
                  /\ UNCHANGED stored
             [] class = "http" ->
                  /\ sent' = Append(sent, Msg("a_fail_api_http", NoMessage))
                  /\ Return(FALSE, "api_http_status")
                  /\ UNCHANGED stored
             [] OTHER ->
                  /\ sent' = Append(sent, Msg("a_fail_api_exception", NoMessage))
                  /\ Return(FALSE, "api_exception")
                  /\ UNCHANGED stored
    /\ UNCHANGED <<scheduler, real_user_id, cfg, entry, inp, has_permission, permission_error, user_id,
                   duration, message, person_id, response, posts, lookups, fetches,
                   rewrites>>

----------------------------------------------------------------------------
(* MuteUserCommand.execute *)

\* lines 354-357: the outer handler reports the exception and returns failure
CommandError ==
    /\ sent' = Append(sent, Msg("c_error", NoMessage))
    /\ Return(FALSE, "cmd_exception")

\* lines 289-293: the user gate
CommandBegin ==
    /\ pc = "c_begin"
    /\ LET perm == CheckUserPermission(inp, cfg.allowed_users)
       IN  IF perm.exc # "none"
           THEN /\ CommandError
                /\ UNCHANGED <<has_permission, permission_error>>
           ELSE /\ has_permission' = perm.ok
                /\ permission_error' = perm.err
                /\ IF ~perm.ok
                   THEN /\ sent' = Append(sent, Msg("c_denied", NoMessage))
                        /\ Return(FALSE, perm.err)
                   ELSE /\ pc' = "c_prepare"
                        /\ UNCHANGED <<sent, result>>
    /\ UNCHANGED <<scheduler, real_user_id, cfg, entry, inp, user_id, duration, message, person_id, response,
                   posts, lookups, fetches, stored, rewrites>>

\* mutant of CommandDuration: /unmute takes the typed duration as /mute does
CommandDuration_TypedUnmute(command, duration_str, default_duration) ==
    IF Truthy(duration_str) THEN PInt(IntOf(duration_str).n)
    ELSE IF command = "mute" THEN Get(default_duration, PInt(FallbackDuration))
    ELSE PInt(0)

\* lines 299-302: /mute takes the typed duration or the configured default,
\* /unmute is always 0
CommandDuration(command, duration_str, default_duration) ==
    IF command = "mute"
    THEN IF Truthy(duration_str) THEN PInt(IntOf(duration_str).n)
         ELSE Get(default_duration, PInt(FallbackDuration))
    ELSE PInt(0)

\* lines 295-324: the arguments are read, the user id and the group id required
CommandPrepare ==
    /\ pc = "c_prepare"
    /\ duration' = CommandDuration(inp.command, inp.duration, cfg.default_duration)
    /\ user_id' = inp.user_id
    /\ IF ~Truthy(inp.user_id)
       THEN /\ sent' = Append(sent, Msg("c_incomplete", NoMessage))
            /\ Return(FALSE, "args_incomplete")
       ELSE IF ~Truthy(inp.group_id)
       THEN /\ sent' = Append(sent, Msg("c_no_group", NoMessage))
            /\ Return(FALSE, "group_id_missing")
       ELSE /\ pc' = "c_post"
            /\ UNCHANGED <<sent, result>>
    /\ UNCHANGED <<scheduler, real_user_id, cfg, entry, inp, has_permission, permission_error, message,
                   person_id, response, posts, lookups, fetches, stored, rewrites>>

\* the payload of lines 320-324: the duration goes in as it is
CommandPayload ==
    [group_id |-> Str(inp.group_id), user_id |-> Str(user_id), duration |-> duration]

\* lines 326-328: the POST, and what comes back
CommandPost ==
    /\ pc = "c_post"
    /\ posts' = Append(posts, CommandPayload)
    /\ delivered' = Append(delivered, [id |-> cur, payload |-> CommandPayload])
    /\ response' \in Responses
    /\ pc' = "c_response"
    /\ UNCHANGED <<cur, parked, started, real_user_id, cfg, entry, inp, has_permission, permission_error, user_id,
                   duration, message, person_id, sent, lookups, fetches, stored,
                   rewrites, result>>

\* lines 329-353: on success the message is rendered and sent; an exception of
\* the rendering is caught by the same except clause as a transport failure
CommandResponse ==
    /\ pc = "c_response"
    /\ LET class == Classify(response)
       IN  CASE class = "ok" ->
                  \E r \in TemplateMessages(Str(user_id), duration, DefaultReason) :
                      IF r.exc = "none"
                      THEN /\ message' = r.msg
                           /\ sent' = Append(sent, Msg("c_confirmation", r.msg))
                           /\ Return(TRUE, IF GtZero(duration).gt THEN "ok_mute"
                                           ELSE "ok_unmute")
                      ELSE /\ sent' = Append(sent, Msg("c_fail_api_exception", NoMessage))
                           /\ Return(FALSE, "api_exception")
                           /\ UNCHANGED message
             [] class = "returned" ->
                  /\ sent' = Append(sent, Msg("c_fail_api_returned", NoMessage))
                  /\ Return(FALSE, "api_returned_failure")
                  /\ UNCHANGED message
             [] class = "http" ->
                  /\ sent' = Append(sent, Msg("c_fail_api_http", NoMessage))
                  /\ Return(FALSE, "api_http_status")
                  /\ UNCHANGED message
             [] OTHER ->
                  /\ sent' = Append(sent, Msg("c_fail_api_exception", NoMessage))
                  /\ Return(FALSE, "api_exception")
                  /\ UNCHANGED message
    /\ UNCHANGED <<scheduler, real_user_id, cfg, entry, inp, has_permission, permission_error, user_id,
                   duration, person_id, response, posts, lookups, fetches, stored,
                   rewrites>>

----------------------------------------------------------------------------
(* Specification *)

Next ==
    \/ Release
    \/ InvokeAction
    \/ InvokeCommand
    \/ CommandUnmatched
    \/ ActionBegin
    \/ ActionResolve
    \/ ActionFetch
    \/ ActionCheckUser
    \/ ActionDenied
    \/ ActionNarrate
    \/ ActionGroupCheck
    \/ ActionPost
    \/ ActionResponse
    \/ CommandBegin
    \/ CommandPrepare
    \/ CommandPost
    \/ CommandResponse

Spec == Init /\ [][Next]_vars

----------------------------------------------------------------------------
(* MuteUserCommand.execute when send_text raises *)

\* send_text raised at the first of the given sends; each except clause that
\* encloses it (lines 349-353, then 354-357) sends its own notice, which may
\* raise in turn: the first notice that goes through ends the command with a
\* failure, and when none does the exception leaves execute
HandlerChain(kinds) ==
    \E k \in 2..(Len(kinds) + 1) :
        IF k <= Len(kinds)
        THEN /\ sent' = Append(sent, Msg(kinds[k], NoMessage))
             /\ Return(FALSE, IF kinds[k] = "c_error" THEN "cmd_exception"
                              ELSE "api_exception")
        ELSE /\ Raise("Exception")
             /\ UNCHANGED sent

\* lines 289-293 with 354-357: the denial (or the error notice for a failed
\* permission check) cannot be sent
CommandBeginSendRaises ==
    /\ pc = "c_begin"
    /\ LET perm == CheckUserPermission(inp, cfg.allowed_users)
       IN  IF perm.exc # "none"
           THEN /\ HandlerChain(<<"c_error">>)
                /\ UNCHANGED <<has_permission, permission_error>>
           ELSE /\ ~perm.ok
                /\ has_permission' = perm.ok
                /\ permission_error' = perm.err
                /\ HandlerChain(<<"c_denied", "c_error">>)
    /\ UNCHANGED <<scheduler, real_user_id, cfg, entry, inp, user_id, duration,
                   message, person_id, response, posts, lookups, fetches, stored,
                   rewrites>>

\* lines 312-316 with 354-357: the missing-group notice cannot be sent
CommandPrepareSendRaises ==
    /\ pc = "c_prepare"
    /\ Truthy(inp.user_id)
    /\ ~Truthy(inp.group_id)
    /\ duration' = CommandDuration(inp.command, inp.duration, cfg.default_duration)
    /\ user_id' = inp.user_id
    /\ HandlerChain(<<"c_no_group", "c_error">>)
    /\ UNCHANGED <<scheduler, real_user_id, cfg, entry, inp, has_permission,
                   permission_error, message, person_id, response, posts, lookups,
                   fetches, stored, rewrites>>

\* lines 329-357: the confirmation or the failure notice cannot be sent; the
\* sends of the try block are inside both except clauses, the send of the
\* clause of line 349 only inside the outer one
CommandResponseSendRaises ==
    /\ pc = "c_response"
    /\ LET class == Classify(response)
       IN  CASE class = "ok" ->
                  \E r \in TemplateMessages(Str(user_id), duration, DefaultReason) :
                      IF r.exc = "none"
                      THEN /\ message' = r.msg
                           /\ HandlerChain(<<"c_confirmation", "c_fail_api_exception",
                                             "c_error">>)
                      ELSE /\ UNCHANGED message
                           /\ HandlerChain(<<"c_fail_api_exception", "c_error">>)
             [] class = "returned" ->
                  /\ HandlerChain(<<"c_fail_api_returned", "c_fail_api_exception",
                                    "c_error">>)
                  /\ UNCHANGED message
             [] class = "http" ->
                  /\ HandlerChain(<<"c_fail_api_http", "c_fail_api_exception",
                                    "c_error">>)
                  /\ UNCHANGED message
             [] OTHER ->
                  /\ HandlerChain(<<"c_fail_api_exception", "c_error">>)
                  /\ UNCHANGED message
    /\ UNCHANGED <<scheduler, real_user_id, cfg, entry, inp, has_permission,
                   permission_error, user_id, duration, person_id, response, posts,
                   lookups, fetches, stored, rewrites>>

\* the plugin with a send_text that may raise in the command
NextFaults ==
    \/ Next
    \/ CommandBeginSendRaises
    \/ CommandPrepareSendRaises
    \/ CommandResponseSendRaises

SpecFaults == Init /\ [][NextFaults]_vars

----------------------------------------------------------------------------
(* Concurrent invocations: the coroutines of one asyncio event loop *)

\* the locals of the running invocation
Locals ==
    [entry |-> entry, inp |-> inp, pc |-> pc, has_permission |-> has_permission,
     permission_error |-> permission_error, user_id |-> user_id,
     duration |-> duration, message |-> message, person_id |-> person_id,
     real_user_id |-> real_user_id, response |-> response, sent |-> sent,
     posts |-> posts, lookups |-> lookups, fetches |-> fetches, stored |-> stored,
     rewrites |-> rewrites, result |-> result]

\* the event loop runs no invocation
Vacate ==
    /\ entry' = "none"
    /\ inp' = NoInput
    /\ pc' = "idle"
    /\ has_permission' = FALSE
    /\ permission_error' = "none"
    /\ user_id' = None
    /\ duration' = None
    /\ message' = NoMessage
    /\ person_id' = None
    /\ real_user_id' = None
    /\ response' = NoResponse
    /\ sent' = <<>>
    /\ posts' = <<>>
    /\ lookups' = 0
    /\ fetches' = 0
    /\ stored' = 0
    /\ rewrites' = 0
    /\ result' = NoResult
    /\ cur' = 0

\* the positions at which execute is suspended in an await before its request
\* is sent: get_person_value (line 118), rewrite_reply (lines 138, 156) and
\* the send_text of the narration (line 166); these decide the order in which
\* the requests arrive
AwaitPoints == {"a_fetch", "a_gate", "a_group"}

\* the running invocation is suspended at an await; the event loop is free
Park ==
    /\ cur # 0
    /\ pc \in AwaitPoints
    /\ parked' = [k \in DOMAIN parked \cup {cur} |->
                     IF k = cur THEN Locals ELSE parked[k]]
    /\ Vacate
    /\ UNCHANGED <<cfg, delivered, started>>

\* the awaited result of a suspended invocation arrives and it runs again
Resume ==
    /\ cur = 0
    /\ pc = "idle"
    /\ \E k \in DOMAIN parked :
        /\ cur' = k
        /\ parked' = [j \in DOMAIN parked \ {k} |-> parked[j]]
        /\ entry' = parked[k].entry
        /\ inp' = parked[k].inp
        /\ pc' = parked[k].pc
        /\ has_permission' = parked[k].has_permission
        /\ permission_error' = parked[k].permission_error
        /\ user_id' = parked[k].user_id
        /\ duration' = parked[k].duration
        /\ message' = parked[k].message
        /\ person_id' = parked[k].person_id
        /\ real_user_id' = parked[k].real_user_id
        /\ response' = parked[k].response
        /\ sent' = parked[k].sent
        /\ posts' = parked[k].posts
        /\ lookups' = parked[k].lookups
        /\ fetches' = parked[k].fetches
        /\ stored' = parked[k].stored
        /\ rewrites' = parked[k].rewrites
        /\ result' = parked[k].result
    /\ UNCHANGED <<cfg, delivered, started>>

\* execute() has returned or raised; the other invocations go on
Retire ==
    /\ pc = "done"
    /\ Vacate
    /\ UNCHANGED <<cfg, parked, delivered, started>>

\* mute and unmute requests of the action for one user of one allowed group
ConcInputs ==
    { [user_id |-> PStr(S_42), duration |-> d, command |-> "none",
       is_group |-> TRUE, group_id |-> PStr(S_1), platform |-> PStr(S_qq),
       has_stream |-> TRUE, has_user_info |-> TRUE, actor |-> PInt(1)] :
      d \in {PInt(0), PInt(600)} }

InvokeConc == \E i \in ConcInputs : Invoke("action", i)

\* one configuration: no allow-list, no templates
InitConc ==
    /\ Init
    /\ cfg.allowed_groups = <<>>
    /\ ~cfg.templates.present
    /\ cfg.default_duration = Absent

NextConc ==
    \/ InvokeConc
    \/ Park
    \/ Resume
    \/ Retire
    \/ ActionBegin
    \/ ActionResolve
    \/ ActionCheckUser
    \/ ActionNarrate
    \/ ActionGroupCheck
    \/ ActionPost
    \/ ActionResponse

SpecConc == InitConc /\ [][NextConc]_vars

----------------------------------------------------------------------------
(* Vocabulary of the properties *)

\* the invocation has ended (returned or raised) and not yet been released
Done == pc = "done"

\* the moderation endpoint confirmed: HTTP 200, status "ok", retcode 0
Confirmed ==
    /\ ~response.exc
    /\ response.code = 200
    /\ response.json
    /\ response.status = "ok"
    /\ response.retcode = 0

\* the reasons returned with a gate denial
DenialReasons == {"group_only", "group_not_allowed", "no_chat_stream", "user_not_allowed"}

\* the entries of an allow-list
Entries(list) == {list[i] : i \in 1..Len(list)}

----------------------------------------------------------------------------
(* C1 *)

\* C1: the POST to the moderation endpoint is issued only if, in the same
\* invocation, the permission gate allowed and the target was resolved to a
\* non-empty user id (which is the id in the payload); an invocation that
\* returns a gate denial or a resolution failure has issued no POST.
C1_PostOnlyAfterGateAndResolution ==
    /\ posts # <<>> =>
          /\ has_permission
          /\ user_id.t = "str"
          /\ user_id.s # <<>>
          /\ posts[1].user_id = user_id.s
    /\ (Done /\ result.reason \in DenialReasons \cup {"unresolved", "user_empty"}) =>
          posts = <<>>

\* C1 witness: an action whose target was a name, looked up and fetched, has POSTed
C1_Witness ==
    /\ entry = "action"
    /\ fetches = 1
    /\ Len(posts) = 1

----------------------------------------------------------------------------
(* C2 *)

\* C2: the duration placed in the payload of the moderation request is an
\* integer within [0, 2592000], for every invocation and requested duration.
C2_PayloadDurationInRange ==
    \A i \in 1..Len(posts) :
        /\ posts[i].duration.t = "int"
        /\ 0 <= posts[i].duration.n
        /\ posts[i].duration.n <= MaxDuration

----------------------------------------------------------------------------
(* C3 *)

\* the gate of the running entry point denies this invocation
GateDenies ==
    \/ /\ entry = "action"
       /\ \/ ~inp.is_group
          \/ /\ cfg.allowed_groups # <<>>
             /\ Key(inp.platform, inp.group_id) \notin Entries(cfg.allowed_groups)
    \/ /\ entry = "command"
       /\ \/ ~inp.has_stream
          \/ /\ inp.has_user_info
             /\ cfg.allowed_users # <<>>
             /\ Key(inp.platform, inp.actor) \notin Entries(cfg.allowed_users)

\* the invocation names a target (step 1, the check of the required input, passes)
TargetGiven ==
    \/ entry = "action" /\ Truthy(Get(inp.user_id, None))
    \/ entry = "command" /\ Truthy(inp.user_id)

\* C3: when the permission gate denies an invocation (that names a target),
\* the entry point records the attempt and returns failure, without having
\* called the identity resolver (directory lookup, attribute fetch) or the
\* moderation endpoint.
C3_DenialBeforeResolver ==
    (GateDenies /\ TargetGiven) =>
        /\ lookups = 0
        /\ fetches = 0
        /\ posts = <<>>
        /\ Done =>
              /\ result.returned
              /\ ~result.success
              /\ result.reason \in DenialReasons
              /\ entry = "action" => stored = 1

----------------------------------------------------------------------------
(* C4 *)

\* the messages that carry the rendered mute/unmute template
ConfirmationKinds == {"a_confirmation", "c_confirmation"}

\* C4: the rendered confirmation message is sent to the chat only after the
\* moderation endpoint has returned a confirmed success; an invocation whose
\* moderation call fails sends only a failure notice and no confirmation.
C4_ConfirmationOnlyAfterSuccess ==
    \A i \in 1..Len(sent) : sent[i].kind \in ConfirmationKinds => Confirmed

----------------------------------------------------------------------------
(* C5 *)

\* the failure class of the moderation response, stated on the response
FailureClass ==
    CASE response.exc -> "exception"
      [] response.code # 200 -> "http"
      [] response.json /\ ~(response.status = "ok" /\ response.retcode = 0) -> "returned"
      [] OTHER -> "other"

\* the notice and the reason of each failure class
ClassNotice(class) ==
    CASE class = "http" -> {"a_fail_api_http", "c_fail_api_http"}
      [] class = "returned" -> {"a_fail_api_returned", "c_fail_api_returned"}
      [] class = "exception" -> {"a_fail_api_exception", "c_fail_api_exception"}
      [] OTHER -> {}

ClassReason(class) ==
    CASE class = "http" -> "api_http_status"
      [] class = "returned" -> "api_returned_failure"
      [] class = "exception" -> "api_exception"
      [] OTHER -> "none"

\* C5: an entry point returns success=true iff the moderation response has
\* HTTP status 200, body status "ok" and retcode 0; every other outcome
\* returns failure, and a non-200 status, a 200 with another status/retcode
\* and a transport exception each end with their own notice and reason.
C5_SuccessIffConfirmed ==
    (Done /\ result.returned) =>
        /\ result.success <=> Confirmed
        /\ (posts # <<>> /\ FailureClass \in {"http", "returned", "exception"}) =>
              /\ ~result.success
              /\ result.reason = ClassReason(FailureClass)
              /\ sent[Len(sent)].kind \in ClassNotice(FailureClass)

----------------------------------------------------------------------------
(* C6 *)

\* C6: an invocation issues at most one POST to the moderation endpoint, and
\* after a failed attempt it ends with failure.
C6_SinglePost ==
    /\ Len(posts) <= 1
    /\ (Done /\ posts # <<>> /\ ~Confirmed) => (result.returned /\ ~result.success)

\* C6 witness: an invocation has ended after its one POST was answered HTTP 500
C6_Witness ==
    /\ Done
    /\ Len(posts) = 1
    /\ response.code = 500
    /\ ~result.success

----------------------------------------------------------------------------
(* C7 *)

\* "platform:id" as the claim writes the key
ClaimKey(platform, id) == Str(platform) \o <<":">> \o Str(id)

\* C7: for both gates, with an empty allow-list every key is allowed, and with
\* a non-empty list a key is allowed iff it is equal to an entry of the list
\* (the group gate for an invocation in a group chat, the user gate for one
\* with a chat stream).
C7_AllowListGate ==
    /\ (entry = "action" /\ pc # "a_begin" /\ inp.is_group) =>
          (has_permission <=>
              \/ cfg.allowed_groups = <<>>
              \/ \E e \in Entries(cfg.allowed_groups) :
                    e = ClaimKey(inp.platform, inp.group_id))
    /\ (entry = "command" /\ pc # "c_begin" /\ inp.has_stream /\ inp.has_user_info) =>
          (has_permission <=>
              \/ cfg.allowed_users = <<>>
              \/ \E e \in Entries(cfg.allowed_users) :
                    e = ClaimKey(inp.platform, inp.actor))

\* C7 witness: an action passed the gate of a non-empty allow-list
C7_Witness ==
    /\ entry = "action"
    /\ pc = "a_resolve"
    /\ cfg.allowed_groups # <<>>
    /\ has_permission

----------------------------------------------------------------------------
(* C8 *)

\* the allow-list the running entry point reads is empty
EmptyAllowList ==
    \/ entry = "action" /\ cfg.allowed_groups = <<>>
    \/ entry = "command" /\ cfg.allowed_users = <<>>

\* a valid target: one the action resolved, or the command's numeric id
TargetValid ==
    \/ entry = "action" /\ Truthy(user_id)
    \/ entry = "command" /\ Truthy(inp.user_id)

InGroupChat ==
    /\ Truthy(inp.group_id)
    /\ entry = "action" => inp.is_group
    /\ entry = "command" => inp.has_stream /\ inp.has_user_info

\* the action's rendering of the message raised before the call
RenderingRaised ==
    /\ entry = "action"
    /\ ~result.returned
    /\ \/ result.exc = "TypeError" /\ duration.t # "int"
       \/ result.exc = "ValueError" /\ cfg.templates.present

----------------------------------------------------------------------------
(* C9 *)

\* C9: an action invocation outside a group chat is denied by the group gate
\* for every allow-list, the empty one included, and never POSTs.
C9_ActionOutsideGroupDenied ==
    (entry = "action" /\ ~inp.is_group) =>
        /\ posts = <<>>
        /\ pc # "a_begin" => (~has_permission /\ permission_error = "group_only")
        /\ Done => ~result.success

\* C9 witness: with an empty allow-list, an action outside a group was denied
C9_Witness ==
    /\ Done
    /\ entry = "action"
    /\ ~inp.is_group
    /\ cfg.allowed_groups = <<>>
    /\ result.reason = "group_only"

----------------------------------------------------------------------------
(* C10 *)

\* the duration the invocation asked for
Requested == IF entry = "action" THEN Get(inp.duration, PInt(0)) ELSE inp.duration

\* the invocation asks for a mute (0 is the action's request to unmute)
MuteRequest ==
    \/ entry = "action" /\ Requested # PInt(0)
    \/ entry = "command" /\ inp.command = "mute"

\* below 1, above 2592000, or not convertible to an integer
InvalidDuration(v) ==
    \/ IntOf(v).exc # "none"
    \/ IntOf(v).n < 1
    \/ IntOf(v).n > MaxDuration

\* C10: a requested duration below 1 or above 2592000 on a mute request, or
\* one that cannot be converted to an integer, is replaced by the configured
\* default duration in the moderation call.
C10_InvalidDurationUsesDefault ==
    \A i \in 1..Len(posts) :
        (MuteRequest /\ InvalidDuration(Requested)) =>
            posts[i].duration = Get(cfg.default_duration, PInt(FallbackDuration))

----------------------------------------------------------------------------
(* C11 *)

\* the invocation asks for duration 0: the action's parameter is 0 (or left
\* out), the command is typed with the duration 0
ZeroRequested ==
    \/ entry = "action" /\ Requested = PInt(0)
    \/ entry = "command" /\ inp.duration = PStr(<<"0">>)

\* the target is given as a string of digits
NumericTarget ==
    \/ entry = "action" /\ Truthy(Get(inp.user_id, None)) /\ IsDigit(Str(inp.user_id))
    \/ entry = "command" /\ IsDigit(Str(inp.user_id))

\* C11: when the requested duration is 0 for a numeric target the invocation
\* is an unmute: every payload carries duration 0, the message is rendered from
\* the unmute pool and never from the mute pool, and after a confirmed
\* moderation response that message has been sent to the chat.
C11_ZeroMeansUnmute ==
    (ZeroRequested /\ NumericTarget) =>
        /\ \A i \in 1..Len(posts) : posts[i].duration = PInt(0)
        /\ message.kind # "none" => message.pool = "unmute"
        /\ \A i \in 1..Len(sent) :
              sent[i].kind \in ConfirmationKinds => sent[i].msg.pool = "unmute"
        /\ (Done /\ posts # <<>> /\ Confirmed) =>
              \E i \in 1..Len(sent) :
                  /\ sent[i].kind \in ConfirmationKinds
                  /\ sent[i].msg.pool = "unmute"

----------------------------------------------------------------------------
(* C12 *)

\* a command message has been typed (dispatched to execute or not)
Typed == inp.command \in {"mute", "unmute"}

\* the target is given as a name: a non-empty string that is not all digits
NameTarget ==
    /\ Truthy(Get(inp.user_id, None))
    /\ ~IsDigit(Str(inp.user_id))

\* the handling of the request is over
Finished == pc \in {"done", "unmatched"}

\* C12 as claimed: when the target is a name that the directory lookup does
\* not find, the request ends with a "user not found" message sent, a failure
\* returned and no HTTP call, for the command as well as for the action.
C12_NameNotFound ==
    (NameTarget /\ Finished /\ ~Truthy(user_id)) =>
        /\ \E i \in 1..Len(sent) : sent[i].kind = "a_not_found"
        /\ result.returned /\ ~result.success
        /\ posts = <<>>

\* C12 amended: when the action's target is a name that the directory lookup
\* does not find (or whose user id cannot be fetched), the action sends the
\* "user not found" message and nothing else, returns failure and makes no
\* HTTP call; a command typed with a name does not match command_pattern, so
\* MuteUserCommand.execute is not run: nothing is looked up, sent or POSTed.
C12_NameNotFoundInAction ==
    /\ (entry = "action" /\ NameTarget /\ Done /\ ~Truthy(user_id)) =>
          /\ sent = <<Msg("a_not_found", NoMessage)>>
          /\ result.returned /\ ~result.success /\ result.reason = "unresolved"
          /\ posts = <<>>
    /\ (Typed /\ NameTarget /\ pc # "idle") =>
          /\ pc = "unmatched" /\ entry = "none"
          /\ lookups = 0 /\ fetches = 0
          /\ sent = <<>> /\ posts = <<>>
          /\ ~result.returned

\* an action whose name target the directory lookup did not find has returned
C12_Witness ==
    /\ entry = "action" /\ NameTarget /\ Done
    /\ lookups = 1 /\ person_id = None
    /\ result.reason = "unresolved"

----------------------------------------------------------------------------
(* C13 *)

\* the action's resolver has finished
Resolved ==
    /\ entry = "action"
    /\ pc \notin {"a_begin", "a_resolve", "a_fetch"}
    /\ Truthy(Get(inp.user_id, None))

\* the text of the target, when it consists of decimal digits only
AllDigits(x) ==
    /\ x # <<>>
    /\ \A i \in 1..Len(x) :
          x[i] \in {"0", "1", "2", "3", "4", "5", "6", "7", "8", "9"}

\* C13: for a target made only of digits the resolver yields exactly that
\* string as the user id, with no directory lookup and no attribute fetch.
C13_DigitsResolveToThemselves ==
    (Resolved /\ AllDigits(Str(inp.user_id))) =>
        /\ user_id = PStr(Str(inp.user_id))
        /\ lookups = 0
        /\ fetches = 0
        /\ \A i \in 1..Len(posts) : posts[i].user_id = Str(inp.user_id)

\* a digits target went through the resolver and reached the moderation call
C13_Witness ==
    /\ Resolved /\ AllDigits(Str(inp.user_id))
    /\ inp.user_id = PStr(S_42)
    /\ posts # <<>> /\ posts[1].user_id = S_42

----------------------------------------------------------------------------
(* C14 *)

\* the action's resolver has finished on a name target
NameResolved == Resolved /\ NameTarget

\* the resolution failed: no user id, and the action ends with "user not found"
ResolutionFails ==
    /\ ~Truthy(user_id)
    /\ posts = <<>>
    /\ Done => /\ result.returned /\ ~result.success
               /\ result.reason = "unresolved"

\* C14 as claimed: for a non-numeric target the resolver makes exactly one
\* directory lookup and exactly one attribute fetch, and the resolution fails
\* if either of them returns an empty or missing value.
C14_OneLookupOneFetch ==
    NameResolved =>
        /\ lookups = 1
        /\ fetches = 1
        /\ (~Truthy(person_id) \/ ~Truthy(real_user_id)) => ResolutionFails

\* C14 amended: for a non-numeric target the resolver makes exactly one
\* directory lookup, and exactly one attribute fetch when the lookup found a
\* person (none when it did not); the resolution fails if the lookup or the
\* fetch returns an empty or missing value, and otherwise yields the fetched
\* value as a string.
C14_OneLookupFetchIfFound ==
    NameResolved =>
        /\ lookups = 1
        /\ fetches = IF Truthy(person_id) THEN 1 ELSE 0
        /\ (~Truthy(person_id) \/ ~Truthy(real_user_id)) => ResolutionFails
        /\ (Truthy(person_id) /\ Truthy(real_user_id)) =>
              user_id = PStr(Str(real_user_id))

\* the lookup found a person whose user id the fetch returned empty
C14_Witness ==
    /\ NameResolved /\ Done
    /\ lookups = 1 /\ fetches = 1
    /\ Truthy(person_id) /\ real_user_id = PStr(<<>>)
    /\ result.reason = "unresolved"

----------------------------------------------------------------------------
(* C15 *)

\* the request names no target: the action's user_id parameter is missing or
\* empty, the command is typed without an id
MissingTarget ==
    \/ entry = "action" /\ ~Truthy(Get(inp.user_id, None))
    \/ Typed /\ ~Truthy(inp.user_id)

\* C15: the steps run in the stated order (validate the target, gate,
\* resolve, ...) and the first failing step decides the outcome: a request
\* without a target ends with the missing-input failure reported, even if the
\* gate would also deny, in the action and in the command; a request with a
\* target that the gate denies ends with the denial.
C15_FirstFailingStepDecides ==
    /\ (MissingTarget /\ Finished) =>
          /\ result.returned /\ ~result.success
          /\ result.reason \in {"user_empty", "args_incomplete"}
          /\ \E i \in 1..Len(sent) : sent[i].kind \in {"a_no_target", "c_incomplete"}
    /\ (~MissingTarget /\ GateDenies /\ Finished) =>
          /\ result.returned /\ ~result.success
          /\ result.reason \in DenialReasons

----------------------------------------------------------------------------
(* C16 *)

\* the invocation has come to the call of _get_template_message and past it:
\* the action after the target is resolved, the command after a confirmed
\* response
PastRendering ==
    \/ /\ entry = "action" /\ Truthy(user_id)
       /\ pc \notin {"a_begin", "a_resolve", "a_fetch", "a_check_user"}
    \/ entry = "command" /\ Done /\ posts # <<>> /\ Confirmed

\* C16: _get_template_message never raises: with the pool absent or empty it
\* returns the default sentence carrying the identifier, the duration and the
\* reason, and when the formatting of the chosen template fails it returns
\* the degraded message carrying the identifier and the reason; so no
\* invocation ends by an exception or a failure because of the rendering: the
\* action goes on towards the moderation call with a message, and the command
\* returns success after a confirmed response.
C16_RenderingNeverFails ==
    PastRendering =>
        /\ message.kind \in {"template", "default", "degraded"}
        /\ message.kind = "default" =>
              message.parts[1] = Str(user_id) /\ Len(message.parts) = 4
        /\ message.kind = "degraded" =>
              message.parts = <<Str(user_id), DefaultReason>>
        /\ ~(Done /\ ~result.returned)
        /\ entry = "command" => result.success

----------------------------------------------------------------------------
(* C17 *)

\* C17: whatever raises inside MuteUserCommand.execute (the permission check,
\* the rendering, the HTTP call, a send_text), the command ends by returning,
\* with (False, reason) and an error notice in the chat when it did not
\* succeed; no exception leaves execute.
C17_CommandNeverRaises ==
    (entry = "command" /\ Done) =>
        /\ result.returned
        /\ result.exc = "none"
        /\ ~result.success => sent # <<>>

----------------------------------------------------------------------------
(* C18 *)

\* the duration as the claim displays it: the number of whole seconds ("s"),
\* minutes ("m"), hours ("h") or days ("d"), by floor division
ScaledDuration(n) ==
    IF n < 60 THEN DecStr(n) \o <<"s">>
    ELSE IF n < 3600 THEN DecStr(n \div 60) \o <<"m">>
    ELSE IF n < 86400 THEN DecStr(n \div 3600) \o <<"h">>
    ELSE DecStr(n \div 86400) \o <<"d">>

\* C18: the duration shown in a rendered message is scaled to a unit by floor
\* division: seconds below 60, minutes below 3600, hours below 86400, days
\* otherwise (600 is shown as 10 minutes).
C18_DurationScaled ==
    (message.kind \in {"template", "default"} /\ duration.t = "int") =>
        \A i \in 1..Len(message.parts) :
            message.parts[i] = ContextValue("duration", Str(user_id), duration,
                                            DefaultReason)
                => message.parts[i] = ScaledDuration(duration.n)

----------------------------------------------------------------------------
(* C19 *)

\* what invocation k posts is made of its own inputs only
OwnPayload(k, payload) ==
    /\ payload.user_id = Str(started[k].user_id)
    /\ payload.group_id = Str(started[k].group_id)
    /\ payload.duration = Get(started[k].duration, PInt(0))

\* every invocation, running or suspended, works on its own inputs, and every
\* request at the endpoint carries the inputs of the invocation that sent it
Isolated ==
    /\ cur # 0 => inp = started[cur]
    /\ \A k \in DOMAIN parked : parked[k].inp = started[k]
    /\ \A n \in 1..Len(delivered) :
          OwnPayload(delivered[n].id, delivered[n].payload)

\* C19: concurrent invocations for the same target are not serialized and
\* share no state: each one reads and writes only its own locals, so that
\* what it posts is determined by its own inputs whatever the others do, and
\* the configuration is never written.
C19_InvocationsIsolated == [](Isolated) /\ [][cfg' = cfg]_vars

\* a mute and an unmute of the same user have reached the endpoint in the
\* order opposite to the one in which they were started
C19_Witness ==
    /\ Len(delivered) = 2
    /\ delivered[1].id = 2 /\ delivered[2].id = 1
    /\ delivered[1].payload.user_id = delivered[2].payload.user_id
    /\ delivered[1].payload.duration = PInt(0)
    /\ delivered[2].payload.duration = PInt(600)

----------------------------------------------------------------------------
(* C20 *)

\* the chat of the invocation has no group id, or an empty one
NoGroupId == entry \in {"action", "command"} /\ ~Truthy(inp.group_id)

----------------------------------------------------------------------------
(* C21 *)

\* the duration the claim gives to the command that was typed
ClaimedCommandDuration ==
    IF inp.command = "unmute" THEN PInt(0)
    ELSE IF inp.duration.t = "str" THEN PInt(DigitsValue(inp.duration.s))
    ELSE IF cfg.default_duration = Absent THEN PInt(600)
    ELSE cfg.default_duration

\* C21: in the command, /unmute always gives payload duration 0 whatever
\* duration was typed, /mute without a duration gives the configured
\* mute_command.default_duration (600 when it is not set), and /mute with a
\* duration gives that integer.
C21_CommandDuration ==
    entry = "command" =>
        /\ pc \in {"c_post", "c_response"} => duration = ClaimedCommandDuration
        /\ \A i \in 1..Len(posts) : posts[i].duration = ClaimedCommandDuration

\* an /unmute typed with the duration 60 has posted the duration 0
C21_Witness ==
    /\ entry = "command"
    /\ inp.command = "unmute" /\ inp.duration = PStr(S_60)
    /\ Len(posts) = 1 /\ posts[1].duration = PInt(0)

----------------------------------------------------------------------------
(* C22 *)

\* the action has ended on the permission-denied path
EndedDenied == Done /\ result.returned /\ result.reason \in DenialReasons

\* the action has ended on the confirmed-success path
EndedSuccess == Done /\ result.returned /\ result.success

\* the reasons of the paths on which nothing is to be recorded: missing
\* target, resolution failure, missing group id, moderation failure
UnrecordedReasons ==
    {"user_empty", "unresolved", "no_group_id", "api_returned_failure",
     "api_http_status", "api_exception"}

\* C22: in the action, store_action_info is called exactly once on the
\* permission-denied path and exactly once on the confirmed-success path, and
\* is not called on the missing-target, resolution-failure, missing-group-id
\* and moderation-failure paths (nor before the action ends).
C22_StoreActionInfo ==
    entry = "action" =>
        /\ EndedDenied => stored = 1
        /\ EndedSuccess => stored = 1 /\ Confirmed /\ Len(posts) = 1
        /\ (Done /\ result.reason \in UnrecordedReasons) => stored = 0
        /\ ~(EndedDenied \/ EndedSuccess) => stored = 0

\* a denied action has recorded its attempt once
C22_Witness ==
    /\ entry = "action" /\ EndedDenied
    /\ stored = 1 /\ posts = <<>>

====
